---- MODULE Spec2Model ----
(***************************************************************************)
(* RenderDeck: overlay editing and custom-model persistence.               *)
(*                                                                         *)
(* The module models                                                       *)
(*   - the IndexedDB wrapper (indexedDBStorage.js): two key/value          *)
(*     namespaces, 'models' and 'blobs', and the dataURL <-> Blob          *)
(*     conversions;                                                        *)
(*   - CustomModelStorage (js/scenes.js): saveCustomModel, loadCustomModel,*)
(*     deleteCustomModel, loadAllCustomModels / exportCustomModels,        *)
(*     importCustomModels, clearAllCustomModels;                           *)
(*   - the inline UVEditor (js/main.js): image upload, selection, slider   *)
(*     and typed edits, pointer events;                                    *)
(*   - TextureCompositor.createCompositeTexture                            *)
(*     (js/utils/TextureCompositor.js): the base wait, the concurrent      *)
(*     overlay decodes and the draw loop;                                  *)
(*   - saveCustomModel calls that overlap, each await a step of its own.   *)
(*                                                                         *)
(* A namespace is a function whose domain is the set of stored keys.       *)
(* An await that rejects (quota exceeded, transaction error) is an input   *)
(* of the operation: failAt names the write that rejects, 0 meaning none.  *)
(* Reads (get / getAllKeys) are modelled as succeeding, except in a        *)
(* loadCustomModel call of the specification that follows the causes of    *)
(* storage failures.                                                       *)
(***************************************************************************)
EXTENDS Integers, Sequences, FiniteSets, TLC

VARIABLES
    models,      \* namespace 'models': customName -> metadata document
    blobs,       \* namespace 'blobs': <<customName, index>> -> Blob
    saved,       \* history: customName -> the record of the last save that returned true
    saveInfo,    \* history: the last saveCustomModel call; before is what
                 \* loadCustomModel returned for the name when a failed save began
    loadInfo,    \* history: the last loadCustomModel call
    delInfo,     \* history: the last deleteCustomModel call
    file,        \* the export document at hand (downloaded or chosen for import)
    importInfo,  \* history: the last importCustomModels call
    clearInfo,   \* history: the last clearAllCustomModels call
    overlayImages,    \* UVEditor.overlayImages, bottom layer first
    selectedImageId,  \* UVEditor.selectedImageId, 0 for null
    isDragging,       \* UVEditor.isDragging
    dragOffset,       \* UVEditor.dragOffset
    nextImageId,      \* UVEditor.nextImageId
    lastEvent,        \* history: the last pointer or panel event of the editor
    baseImage,        \* the image of the base texture handed to the compositor
    baseHandler,      \* the call whose onload / onerror handlers the base image holds
    compOverlays,     \* the overlayImages argument of createCompositeTexture
    jobs,             \* the createCompositeTexture calls on that input
    calls,            \* saveCustomModel calls that run concurrently, write by write
    requests,         \* the loadModel calls of main.js, await by await
    scene,            \* the loaded objects in the scene, each named by its request
    activeModel,      \* main.js activeModel: the request whose object it is, 0 for null
    activeMesh,       \* main.js activeMesh: the request whose mesh it is, 0 for null
    customModels,     \* the stored custom records: customName -> basedOn
    activeModelName,  \* UVEditor.activeModelName
    customModelName,  \* UVEditor.customModelName
    pathCall          \* the getLoadingPaths call under way, recursion by recursion

storeHist == <<saved, saveInfo, loadInfo, delInfo>>
batchVars == <<file, importInfo, clearInfo>>
editorVars ==
    <<overlayImages, selectedImageId, isDragging, dragOffset, nextImageId, lastEvent>>
storeVars == <<models, blobs, storeHist, batchVars>>
compVars == <<baseImage, baseHandler, compOverlays, jobs>>
asyncVars == <<calls>>
loaderVars == <<requests, scene, activeModel, activeMesh>>
pathVars == <<customModels, activeModelName, customModelName, pathCall>>
sessionVars == <<loaderVars, pathVars>>
vars == <<models, blobs, saved, saveInfo, loadInfo, delInfo, file, importInfo, clearInfo,
          overlayImages, selectedImageId, isDragging, dragOffset, nextImageId, lastEvent,
          baseImage, baseHandler, compOverlays, jobs, calls,
          requests, scene, activeModel, activeMesh,
          customModels, activeModelName, customModelName, pathCall>>

-----------------------------------------------------------------------------
(* Bounds and input sets *)

\* longest overlay list of a record handed to saveCustomModel
MaxOverlays == 3

Names == {"a", "b"}

\* the names the single-call specification works on
StoreNames == {"a"}

\* A data URL: media type, payload encoding, payload bytes.
PngURL == [mime |-> "image/png", enc |-> "base64", bytes |-> 1]
SvgURL == [mime |-> "image/svg+xml", enc |-> "utf8", bytes |-> 2]
\* imageData absent or empty (falsy in `if (overlay.imageData)`)
NoImage == [mime |-> "", enc |-> "", bytes |-> 0]

Xform(px, py, w, h, rot, ar) ==
    [position |-> [x |-> px, y |-> py], size |-> [w |-> w, h |-> h],
     rotation |-> rot, aspectRatio |-> ar]

Overlay(nm, t, img) ==
    [name |-> nm, position |-> t.position, size |-> t.size,
     rotation |-> t.rotation, aspectRatio |-> t.aspectRatio, imageData |-> img]

\* the overlays records are built from
OverlayInputs ==
    { Overlay("logo.png", Xform(50, 50, 30, 30, 0, 1), PngURL),
      Overlay("mark.svg", Xform(20, 80, 30, 15, 45, 2), SvgURL),
      Overlay("bare", Xform(70, 10, 10, 40, 90, 4), NoImage) }

SeqsUpTo(S, n) == UNION { [1..k -> S] : k \in 0..n }

\* modelData handed to saveCustomModel
RecordInputs ==
    { [basedOn |-> "Cube", materialPreset |-> "Metal", overlayImages |-> s] :
        s \in SeqsUpTo(OverlayInputs, MaxOverlays) }

-----------------------------------------------------------------------------
(* indexedDBStorage.js *)

Put(store, key, value) ==
    [k \in DOMAIN store \cup {key} |-> IF k = key THEN value ELSE store[k]]

Del(store, key) == [k \in DOMAIN store \ {key} |-> store[k]]

Has(store, key) == key \in DOMAIN store

\* the names of transaction.error / request.error when a put fails
PutCauses == {"QuotaExceededError", "UnknownError"}

\* what put rejects with: new Error(`Failed to put ...: ${transaction.error}`),
\* an Error whose name is "Error" and whose message quotes the cause
PutRejection(cause) == [name |-> "Error", message |-> cause]

\* fetch(dataURL).blob(): the payload decoded, typed by the media type
dataURLToBlob(url) == [type |-> url.mime, bytes |-> url.bytes]

\* FileReader.readAsDataURL: always a base64 data URL
blobToDataURL(blob) == [mime |-> blob.type, enc |-> "base64", bytes |-> blob.bytes]

\* `overlay:${name}:${i}`, i counted from 0
OverlayKey(name, i) == <<name, i>>

EmptyStore == [k \in {} |-> 0]

-----------------------------------------------------------------------------
(* CustomModelStorage.saveCustomModel *)

OverlayMetadata(img) ==
    [name |-> img.name, position |-> img.position, size |-> img.size,
     rotation |-> img.rotation, aspectRatio |-> img.aspectRatio]

\* The blob loop: overlay i (1-based here) is written under index i-1 when it
\* has imageData; w counts the puts issued, put number failAt rejects.
RECURSIVE SaveBlobs(_, _, _, _, _, _, _)
SaveBlobs(bl, name, imgs, i, keys, w, failAt) ==
    IF i > Len(imgs)
    THEN [blobs |-> bl, overlayKeys |-> keys, writes |-> w, threw |-> FALSE]
    ELSE IF imgs[i].imageData = NoImage
    THEN SaveBlobs(bl, name, imgs, i + 1, keys, w, failAt)
    ELSE IF w + 1 = failAt
    THEN [blobs |-> bl, overlayKeys |-> keys, writes |-> w + 1, threw |-> TRUE]
    ELSE SaveBlobs(Put(bl, OverlayKey(name, i - 1), dataURLToBlob(imgs[i].imageData)),
                   name, imgs, i + 1, Append(keys, OverlayKey(name, i - 1)), w + 1, failAt)

\* a save that files the transforms in reverse overlay order
MetadataReversed(name, modelData, keys) ==
    LET n == Len(modelData.overlayImages)
    IN  [basedOn |-> modelData.basedOn,
         materialPreset |-> modelData.materialPreset,
         version |-> 2,
         overlayKeys |-> keys,
         overlayMetadata |-> [i \in 1..n |->
                                  OverlayMetadata(modelData.overlayImages[n + 1 - i])]]

Metadata(name, modelData, keys) ==
    [basedOn |-> modelData.basedOn,
     materialPreset |-> modelData.materialPreset,
     version |-> 2,
     overlayKeys |-> keys,
     overlayMetadata |-> [i \in 1..Len(modelData.overlayImages) |->
                              OverlayMetadata(modelData.overlayImages[i])]]

\* the test of the catch block that guards the storage-full notice
QuotaBranch(error) == error.name = "QuotaExceededError"

\* The whole call: the new namespaces, the returned boolean, and whether the
\* call rejected instead of returning.
SaveCustomModel(ms, bl, name, modelData, failAt) ==
    LET b == SaveBlobs(bl, name, modelData.overlayImages, 1, <<>>, 0, failAt)
    IN  IF b.threw \/ b.writes + 1 = failAt
        THEN \* the catch block: log, return false
             [models |-> ms, blobs |-> b.blobs, ok |-> FALSE, threw |-> FALSE]
        ELSE [models |-> Put(ms, name, Metadata(name, modelData, b.overlayKeys)),
              blobs |-> b.blobs, ok |-> TRUE, threw |-> FALSE]

\* number of puts a save of modelData issues when none rejects
NumWrites(modelData) ==
    Cardinality({i \in 1..Len(modelData.overlayImages) :
                    modelData.overlayImages[i].imageData # NoImage}) + 1

-----------------------------------------------------------------------------
(* CustomModelStorage.loadCustomModel *)

RECURSIVE LoadOverlays(_, _, _, _)
LoadOverlays(bl, meta, i, acc) ==
    IF i > Len(meta.overlayKeys) THEN acc
    ELSE IF Has(bl, meta.overlayKeys[i]) /\ i <= Len(meta.overlayMetadata)
    THEN LoadOverlays(bl, meta, i + 1,
            Append(acc, [name |-> meta.overlayMetadata[i].name,
                         position |-> meta.overlayMetadata[i].position,
                         size |-> meta.overlayMetadata[i].size,
                         rotation |-> meta.overlayMetadata[i].rotation,
                         aspectRatio |-> meta.overlayMetadata[i].aspectRatio,
                         imageData |-> blobToDataURL(bl[meta.overlayKeys[i]])]))
    ELSE LoadOverlays(bl, meta, i + 1, acc)

\* null is [found |-> FALSE]
NotFound ==
    [found |-> FALSE, basedOn |-> "", materialPreset |-> "", overlayImages |-> <<>>]

LoadCustomModel(ms, bl, name) ==
    IF ~Has(ms, name) THEN NotFound
    ELSE [found |-> TRUE,
          basedOn |-> ms[name].basedOn,
          materialPreset |-> ms[name].materialPreset,
          overlayImages |-> LoadOverlays(bl, ms[name], 1, <<>>)]

-----------------------------------------------------------------------------
(* CustomModelStorage.deleteCustomModel *)

\* deletes the blobs keys[i..], del number failAt rejects
RECURSIVE DeleteBlobs(_, _, _, _, _)
DeleteBlobs(bl, keys, i, w, failAt) ==
    IF i > Len(keys) THEN [blobs |-> bl, writes |-> w, threw |-> FALSE]
    ELSE IF w + 1 = failAt THEN [blobs |-> bl, writes |-> w + 1, threw |-> TRUE]
    ELSE DeleteBlobs(Del(bl, keys[i]), keys, i + 1, w + 1, failAt)

\* a delete without the catch block: a rejected request rejects the call
DeleteCustomModelThrows(ms, bl, name, failAt) ==
    IF ~Has(ms, name) THEN [models |-> ms, blobs |-> bl, ok |-> FALSE, threw |-> FALSE]
    ELSE LET b == DeleteBlobs(bl, ms[name].overlayKeys, 1, 0, failAt)
         IN  IF b.threw \/ b.writes + 1 = failAt
             THEN [models |-> ms, blobs |-> b.blobs, ok |-> FALSE, threw |-> TRUE]
             ELSE [models |-> Del(ms, name), blobs |-> b.blobs, ok |-> TRUE,
                   threw |-> FALSE]

DeleteCustomModel(ms, bl, name, failAt) ==
    IF ~Has(ms, name) THEN [models |-> ms, blobs |-> bl, ok |-> FALSE, threw |-> FALSE]
    ELSE LET b == DeleteBlobs(bl, ms[name].overlayKeys, 1, 0, failAt)
         IN  IF b.threw \/ b.writes + 1 = failAt
             THEN \* the catch block: log, return false
                  [models |-> ms, blobs |-> b.blobs, ok |-> FALSE, threw |-> FALSE]
             ELSE [models |-> Del(ms, name), blobs |-> b.blobs, ok |-> TRUE,
                   threw |-> FALSE]

-----------------------------------------------------------------------------
(* CustomModelStorage.loadAllCustomModels / exportCustomModels *)

\* getAllKeys('models') returns the keys in key order
NameOrder == <<"a", "b">>

RECURSIVE AllKeys(_, _)
AllKeys(ms, i) ==
    IF i > Len(NameOrder) THEN <<>>
    ELSE IF Has(ms, NameOrder[i]) THEN <<NameOrder[i]>> \o AllKeys(ms, i + 1)
    ELSE AllKeys(ms, i + 1)

GetAllCustomModelNames(ms) == AllKeys(ms, 1)

\* One entry of the "models" object of the export document: the record
\* loadCustomModel returned, as JSON (every overlay with its inline imageData).
ExportEntry(ms, bl, name) ==
    LET m == LoadCustomModel(ms, bl, name)
    IN  [name |-> name,
         data |-> [basedOn |-> m.basedOn, materialPreset |-> m.materialPreset,
                   overlayImages |-> m.overlayImages]]

\* the entries of exportData.models, in the order loadAllCustomModels adds them
ExportCustomModels(ms, bl) ==
    LET keys == GetAllCustomModelNames(ms)
    IN  [i \in 1..Len(keys) |-> ExportEntry(ms, bl, keys[i])]

-----------------------------------------------------------------------------
(* CustomModelStorage.importCustomModels *)

\* One pass of the loop over Object.entries(importData.models).  decision is
\* the answer confirm() would give, fail = [del, save] names the rejecting
\* write of the delete and of the save of this entry (0: none).
\* an import that deletes the stored record before it honours a 'skip'
ImportEntrySkipDeletes(st, entry, decision, fail) ==
    LET name == entry.name
        existing == LoadCustomModel(st.models, st.blobs, name).found
        asked == IF existing THEN 1 ELSE 0
    IN  IF existing /\ decision = "skip"
        THEN [st EXCEPT !.models = Del(@, name),
                        !.skippedCount = @ + 1,
                        !.log = Append(@, [name |-> name, asked |-> asked,
                                           decision |-> "skip", outcome |-> "skipped"])]
        ELSE LET d == IF existing
                      THEN DeleteCustomModel(st.models, st.blobs, name, fail.del)
                      ELSE [models |-> st.models, blobs |-> st.blobs, ok |-> FALSE,
                            threw |-> FALSE]
                 s == SaveCustomModel(d.models, d.blobs, name, entry.data, fail.save)
                 dec == IF existing THEN "overwrite" ELSE "none"
             IN  IF d.threw
                 THEN [st EXCEPT !.models = d.models, !.blobs = d.blobs, !.threw = TRUE]
                 ELSE IF s.threw
                 THEN [st EXCEPT !.models = s.models, !.blobs = s.blobs, !.threw = TRUE]
                 ELSE [models |-> s.models,
                       blobs |-> s.blobs,
                       importedCount |-> st.importedCount + (IF s.ok THEN 1 ELSE 0),
                       skippedCount |-> st.skippedCount,
                       firstImportedName |->
                           IF s.ok /\ st.firstImportedName = "" THEN name
                           ELSE st.firstImportedName,
                       log |-> Append(st.log,
                                 [name |-> name, asked |-> asked, decision |-> dec,
                                  outcome |-> IF s.ok THEN "imported" ELSE "failed"]),
                       threw |-> FALSE]

ImportEntry(st, entry, decision, fail) ==
    LET name == entry.name
        existing == LoadCustomModel(st.models, st.blobs, name).found
        asked == IF existing THEN 1 ELSE 0
    IN  IF existing /\ decision = "skip"
        THEN [st EXCEPT !.skippedCount = @ + 1,
                        !.log = Append(@, [name |-> name, asked |-> asked,
                                           decision |-> "skip", outcome |-> "skipped"])]
        ELSE LET d == IF existing
                      THEN DeleteCustomModel(st.models, st.blobs, name, fail.del)
                      ELSE [models |-> st.models, blobs |-> st.blobs, ok |-> FALSE,
                            threw |-> FALSE]
                 s == SaveCustomModel(d.models, d.blobs, name, entry.data, fail.save)
                 dec == IF existing THEN "overwrite" ELSE "none"
             IN  IF d.threw
                 THEN [st EXCEPT !.models = d.models, !.blobs = d.blobs, !.threw = TRUE]
                 ELSE IF s.threw
                 THEN [st EXCEPT !.models = s.models, !.blobs = s.blobs, !.threw = TRUE]
                 ELSE [models |-> s.models,
                       blobs |-> s.blobs,
                       importedCount |-> st.importedCount + (IF s.ok THEN 1 ELSE 0),
                       skippedCount |-> st.skippedCount,
                       firstImportedName |->
                           IF s.ok /\ st.firstImportedName = "" THEN name
                           ELSE st.firstImportedName,
                       log |-> Append(st.log,
                                 [name |-> name, asked |-> asked, decision |-> dec,
                                  outcome |-> IF s.ok THEN "imported" ELSE "failed"]),
                       threw |-> FALSE]

\* the locals of a running importCustomModels call, before the first entry
ImportStart(ms, bl) ==
    [models |-> ms, blobs |-> bl, importedCount |-> 0, skippedCount |-> 0,
     firstImportedName |-> "", log |-> <<>>, threw |-> FALSE]

\* the object the call returns once the loop has ended (or the catch block ran)
ImportResult(st) ==
    IF st.threw
    THEN [success |-> FALSE, error |-> <<"exception">>]
    ELSE IF st.importedCount > 0
    THEN [success |-> TRUE, name |-> st.firstImportedName,
          count |-> st.importedCount, skipped |-> st.skippedCount]
    ELSE [success |-> FALSE,
          error |-> <<"No models imported", st.skippedCount, "skipped">>]

-----------------------------------------------------------------------------
(* CustomModelStorage.clearAllCustomModels *)

RECURSIVE ClearLoop(_, _, _, _)
ClearLoop(st, names, i, fails) ==
    IF i > Len(names) \/ st.threw THEN st
    ELSE LET d == DeleteCustomModel(st.models, st.blobs, names[i], fails[i])
         IN  ClearLoop([models |-> d.models, blobs |-> d.blobs,
                        attempted |-> Append(st.attempted, names[i]),
                        threw |-> d.threw],
                       names, i + 1, fails)

ClearAllCustomModels(ms, bl, fails) ==
    LET names == GetAllCustomModelNames(ms)
        st == ClearLoop([models |-> ms, blobs |-> bl, attempted |-> <<>>,
                         threw |-> FALSE], names, 1, fails)
    IN  [models |-> st.models,
         blobs |-> st.blobs,
         names |-> names,
         attempted |-> st.attempted,
         result |->
            IF st.threw
            THEN [success |-> FALSE, count |-> 0, error |-> <<"exception">>]
            ELSE [success |-> TRUE, count |-> Len(names)]]

-----------------------------------------------------------------------------
(* History records *)

NoSave == [op |-> "none", name |-> "", ok |-> FALSE, before |-> NotFound,
           cause |-> "none", notice |-> FALSE]
NoLoad == [op |-> "none", name |-> "", readFailed |-> FALSE, result |-> NotFound]
NoDel  == [op |-> "none", name |-> "", ok |-> FALSE]
NoFile == [present |-> FALSE, entries |-> <<>>]
NoImport == [op |-> "none", run |-> 0, entries |-> <<>>, total |-> 0, next |-> 1,
             fromExport |-> FALSE,
             emptyBefore |-> FALSE, importedCount |-> 0, skippedCount |-> 0,
             firstImportedName |-> "", log |-> <<>>, result |-> [success |-> FALSE]]
\* referenced: the blob keys each record named before the call
NoClear == [op |-> "none", names |-> <<>>, attempted |-> <<>>,
            referenced |-> EmptyStore, result |-> [success |-> FALSE]]

\* composites: the _renderComposite calls the handler of the event made;
\* custom, opened: whether an open() found a custom model, and the overlays
\* stored for it
NoEvent == [type |-> "none", seq |-> 0, x |-> 0, y |-> 0, hit |-> 0, wasIdle |-> FALSE,
            afterFirstDown |-> FALSE, moved |-> FALSE, composites |-> 0,
            custom |-> FALSE, opened |-> <<>>]

\* the UVEditor fields the constructor sets
EditorStart ==
    /\ overlayImages = <<>>
    /\ selectedImageId = 0
    /\ isDragging = FALSE
    /\ dragOffset = [x |-> 0, y |-> 0]
    /\ nextImageId = 1
    /\ lastEvent = NoEvent

\* the calls of createCompositeTexture that are followed
Jobs == {1, 2}

\* a call that has not been made
NoJob == [phase |-> "idle", loaded |-> <<>>, arrival |-> <<>>, canvas |-> <<>>]

\* no composite asked for
CompositorStart ==
    /\ baseImage = "none"
    /\ baseHandler = 0
    /\ compOverlays = <<>>
    /\ jobs = [j \in Jobs |-> NoJob]

\* the concurrent saveCustomModel calls that are followed
Calls == {1, 2}

\* a call that has not been made; log is the history of the puts it issued
NoCall == [phase |-> "idle", modelData |-> [overlayImages |-> <<>>], i |-> 1,
           overlayKeys |-> <<>>, ok |-> FALSE, log |-> <<>>]

\* no concurrent save under way
AsyncStart == calls = [c \in Calls |-> NoCall]

MaxRequests == 3
MaxHops == 3

\* the names at hand: a model of the registry, and two other names
Registry == {"chair"}
ModelNames == {"chair", "mine", "gone"}
NoModel == "none"
Requests == 1..MaxRequests

\* a loadModel call that has not been made; type and overlays are what getModel
\* returned, loaded says that the object was added to the scene, map is the
\* texture of its material
NoRequest == [phase |-> "idle", name |-> NoModel, type |-> NoModel, overlays |-> FALSE,
              loaded |-> FALSE, map |-> "preset"]

\* no model loaded and no load under way
LoaderStart ==
    /\ requests = [r \in Requests |-> NoRequest]
    /\ scene = {}
    /\ activeModel = 0
    /\ activeMesh = 0

\* no getLoadingPaths call; arg is the argument of the innermost call, hops
\* counts the recursive calls modulo MaxHops
NoPathCall == [phase |-> "idle", name |-> NoModel, arg |-> NoModel, hops |-> 0,
               result |-> NoModel]

\* no custom model stored, the editor not opened
PathStart ==
    /\ customModels = [n \in ModelNames |-> NoModel]
    /\ activeModelName = NoModel
    /\ customModelName = NoModel
    /\ pathCall = NoPathCall

SessionStart == LoaderStart /\ PathStart

-----------------------------------------------------------------------------
(* The store specification: single calls on the repository *)

StoreInit ==
    /\ models = EmptyStore
    /\ blobs = EmptyStore
    /\ saved = EmptyStore
    /\ saveInfo = NoSave
    /\ loadInfo = NoLoad
    /\ delInfo = NoDel
    /\ file = NoFile
    /\ importInfo = NoImport
    /\ clearInfo = NoClear
    /\ EditorStart
    /\ CompositorStart
    /\ AsyncStart
    /\ SessionStart

Save(name, modelData, failAt, cause) ==
    LET r == SaveCustomModel(models, blobs, name, modelData, failAt)
    IN  /\ (failAt = 0) <=> (cause = "none")
        /\ models' = r.models
        /\ blobs' = r.blobs
        /\ saved' = IF r.ok THEN Put(saved, name, modelData.overlayImages) ELSE saved
        /\ saveInfo' = [op |-> "save", name |-> name, ok |-> r.ok,
                        before |-> IF r.ok THEN NotFound
                                   ELSE LoadCustomModel(models, blobs, name),
                        cause |-> cause,
                        notice |-> (~r.ok /\ QuotaBranch(PutRejection(cause)))]
        /\ loadInfo' = NoLoad
        /\ delInfo' = NoDel
        /\ UNCHANGED <<batchVars, editorVars, compVars, asyncVars, sessionVars>>

\* loadCustomModel; readFails: a get of the call rejects, and the catch block
\* returns null
Load(name, readFails) ==
    /\ loadInfo' = [op |-> "load", name |-> name, readFailed |-> readFails,
                    result |-> IF readFails THEN NotFound
                               ELSE LoadCustomModel(models, blobs, name)]
    /\ UNCHANGED <<models, blobs, saved, saveInfo, delInfo>>
    /\ UNCHANGED <<batchVars, editorVars, compVars, asyncVars, sessionVars>>

Delete(name, failAt) ==
    LET r == DeleteCustomModel(models, blobs, name, failAt)
    IN  /\ models' = r.models
        /\ blobs' = r.blobs
        /\ saved' = IF r.ok THEN Del(saved, name) ELSE saved
        /\ delInfo' = [op |-> "delete", name |-> name, ok |-> r.ok]
        /\ saveInfo' = NoSave
        /\ loadInfo' = NoLoad
        /\ UNCHANGED <<batchVars, editorVars, compVars, asyncVars, sessionVars>>

\* a blob removed from the 'blobs' namespace behind the repository's back
BlobLost(key) ==
    /\ Has(blobs, key)
    /\ blobs' = Del(blobs, key)
    /\ saveInfo' = NoSave
    /\ loadInfo' = NoLoad
    /\ delInfo' = NoDel
    /\ UNCHANGED <<models, saved>>
    /\ UNCHANGED <<batchVars, editorVars, compVars, asyncVars, sessionVars>>

StoreNext ==
    \/ \E name \in StoreNames, modelData \in RecordInputs :
         \E failAt \in 0..NumWrites(modelData) :
            Save(name, modelData, failAt, IF failAt = 0 THEN "none" ELSE "UnknownError")
    \/ \E name \in StoreNames : Load(name, FALSE)
    \/ \E name \in StoreNames, failAt \in 0..(MaxOverlays + 1) : Delete(name, failAt)
    \/ \E key \in DOMAIN blobs : BlobLost(key)

StoreSpec == StoreInit /\ [][StoreNext]_vars

\* longest overlay list of a record saved when the causes of storage failures
\* are followed
MaxQuotaOverlays == 2

\* The same calls with every cause of a rejected put and with reads that
\* reject, on shorter records.
QuotaNext ==
    \/ \E name \in StoreNames, modelData \in RecordInputs :
         \E failAt \in 0..NumWrites(modelData), cause \in {"none"} \cup PutCauses :
            /\ Len(modelData.overlayImages) <= MaxQuotaOverlays
            /\ Save(name, modelData, failAt, cause)
    \/ \E name \in StoreNames, readFails \in BOOLEAN : Load(name, readFails)
    \/ \E name \in StoreNames, failAt \in 0..(MaxQuotaOverlays + 1) : Delete(name, failAt)
    \/ \E key \in DOMAIN blobs : BlobLost(key)

QuotaSpec == StoreInit /\ [][QuotaNext]_vars

-----------------------------------------------------------------------------
(* The batch specification: export, import and clear-all over two names.    *)
(* An import runs entry by entry; no other call starts while it runs.       *)

\* the overlay lists of the records of a chosen file
DocOverlayLists ==
    LET logo == Overlay("logo.png", Xform(50, 50, 30, 30, 0, 1), PngURL)
        mark == Overlay("mark.svg", Xform(20, 80, 30, 15, 45, 2), SvgURL)
        bare == Overlay("bare", Xform(70, 10, 10, 40, 90, 4), NoImage)
    IN  { <<logo>>, <<mark, logo>>, <<bare, mark>> }

DocRecords ==
    { [basedOn |-> "Cube", materialPreset |-> "Metal", overlayImages |-> s] :
        s \in DocOverlayLists }

\* a chosen file: one or two records under distinct names, in file order
DocInputs ==
    { <<[name |-> n, data |-> r]>> : n \in Names, r \in DocRecords }
    \cup { d \in { <<[name |-> n1, data |-> r1], [name |-> n2, data |-> r2]>> :
                       n1 \in Names, n2 \in Names, r1 \in DocRecords, r2 \in DocRecords } :
             d[1].name # d[2].name }

\* the latest write of one delete or save that may be made to reject
MaxFailAt == 2

\* per entry: no rejection, or one rejecting write in its delete or its save
FailInputs ==
    { [del |-> 0, save |-> 0] }
    \cup { [del |-> k, save |-> 0] : k \in 1..MaxFailAt }
    \cup { [del |-> 0, save |-> k] : k \in 1..MaxFailAt }

\* import runs started in one session
MaxImports == 1

Idle == importInfo.op # "running"

NoRecord == [basedOn |-> "", materialPreset |-> "", overlayImages |-> <<>>]

\* what earlier sessions left in the database: each name absent, or saved once
StoreOf(ra, rb) ==
    LET s1 == IF ra = NoRecord
              THEN [models |-> EmptyStore, blobs |-> EmptyStore]
              ELSE SaveCustomModel(EmptyStore, EmptyStore, "a", ra, 0)
    IN  IF rb = NoRecord THEN [models |-> s1.models, blobs |-> s1.blobs]
        ELSE LET s2 == SaveCustomModel(s1.models, s1.blobs, "b", rb, 0)
             IN  [models |-> s2.models, blobs |-> s2.blobs]

PersistedStores ==
    { StoreOf(ra, rb) : ra \in DocRecords \cup {NoRecord},
                        rb \in DocRecords \cup {NoRecord} }

BatchInit ==
    /\ \E s \in PersistedStores : models = s.models /\ blobs = s.blobs
    /\ saved = EmptyStore
    /\ saveInfo = NoSave
    /\ loadInfo = NoLoad
    /\ delInfo = NoDel
    /\ file = NoFile
    /\ importInfo = NoImport
    /\ clearInfo = NoClear
    /\ EditorStart
    /\ CompositorStart
    /\ AsyncStart
    /\ SessionStart

Export ==
    /\ Idle
    /\ file' = [present |-> TRUE, entries |-> ExportCustomModels(models, blobs)]
    /\ importInfo' = [NoImport EXCEPT !.run = importInfo.run]
    /\ clearInfo' = NoClear
    /\ UNCHANGED <<models, blobs, storeHist, editorVars, compVars, asyncVars, sessionVars>>

\* importCustomModels up to the loop, on the parsed entries of the document
BeginImport(entries, fromExport) ==
    /\ Idle
    /\ importInfo.run < MaxImports
    /\ importInfo' =
          [op |-> IF Len(entries) = 0 THEN "done" ELSE "running",
           run |-> importInfo.run + 1,
           entries |-> entries, total |-> Len(entries), next |-> 1,
           fromExport |-> fromExport, emptyBefore |-> (models = EmptyStore),
           importedCount |-> 0, skippedCount |-> 0, firstImportedName |-> "",
           log |-> <<>>,
           result |-> IF Len(entries) = 0 THEN ImportResult(ImportStart(models, blobs))
                      ELSE [success |-> FALSE]]
    /\ clearInfo' = NoClear
    /\ UNCHANGED <<models, blobs, file, storeHist, editorVars, compVars, asyncVars, sessionVars>>

ImportFile(entries) == BeginImport(entries, FALSE)

ImportExported == file.present /\ BeginImport(file.entries, TRUE)

\* one pass of the loop; the pass over the last entry also returns
ImportStep(decision, fail) ==
    /\ importInfo.op = "running"
    /\ LET entry == importInfo.entries[importInfo.next]
           existing == Has(models, entry.name)
           st == ImportEntry([models |-> models, blobs |-> blobs,
                              importedCount |-> importInfo.importedCount,
                              skippedCount |-> importInfo.skippedCount,
                              firstImportedName |-> importInfo.firstImportedName,
                              log |-> importInfo.log, threw |-> FALSE],
                             entry, decision, fail)
           last == st.threw \/ importInfo.next = Len(importInfo.entries)
       IN  \* choices that cannot matter are not enumerated twice
           /\ existing \/ decision = "overwrite"
           /\ (fail.del # 0) => (existing /\ decision = "overwrite")
           /\ (fail.save # 0) => ~(existing /\ decision = "skip")
           /\ models' = st.models
           /\ blobs' = st.blobs
           /\ importInfo' = [importInfo EXCEPT
                  !.op = IF last THEN "done" ELSE "running",
                  !.entries = IF last THEN <<>> ELSE @,
                  !.next = @ + 1,
                  !.importedCount = st.importedCount,
                  !.skippedCount = st.skippedCount,
                  !.firstImportedName = st.firstImportedName,
                  !.log = st.log,
                  !.result = IF last THEN ImportResult(st) ELSE @]
    /\ UNCHANGED <<file, clearInfo, storeHist, editorVars, compVars, asyncVars, sessionVars>>

ClearAll(fails) ==
    /\ Idle
    /\ LET r == ClearAllCustomModels(models, blobs, fails)
       IN  /\ models' = r.models
           /\ blobs' = r.blobs
           /\ clearInfo' = [op |-> "clear", names |-> r.names,
                            attempted |-> r.attempted,
                            referenced |->
                               [n \in DOMAIN models |->
                                  {models[n].overlayKeys[i] :
                                      i \in 1..Len(models[n].overlayKeys)}],
                            result |-> r.result]
    /\ importInfo' = [NoImport EXCEPT !.run = importInfo.run]
    /\ UNCHANGED <<file, storeHist, editorVars, compVars, asyncVars, sessionVars>>

BatchNext ==
    \/ Export
    \/ \E entries \in DocInputs : ImportFile(entries)
    \/ ImportExported
    \/ \E decision \in {"overwrite", "skip"}, fail \in FailInputs : ImportStep(decision, fail)
    \/ \E fails \in [1..Len(GetAllCustomModelNames(models)) -> 0..MaxFailAt] : ClearAll(fails)

BatchSpec == BatchInit /\ [][BatchNext]_vars

-----------------------------------------------------------------------------
(* The editor specification: UVEditor of main.js.  Positions and sizes are   *)
(* percentages of the texture; the inputs are chosen so that every quotient  *)
(* the code computes is a whole number.                                      *)

\* most layers an editing session holds
MaxImages == 2

\* events of one editing session
MaxEvents == 5

CanAct == lastEvent.seq < MaxEvents

\* an event record numbered after the last one
Stamp(ev) == [NoEvent EXCEPT !.type = ev.type, !.x = ev.x, !.y = ev.y, !.hit = ev.hit,
                            !.wasIdle = ev.wasIdle,
                            !.afterFirstDown = ev.afterFirstDown, !.moved = ev.moved,
                            !.composites = ev.composites,
                            !.seq = lastEvent.seq + 1]

\* the record of an event that is no pointer-down and no pointer-move
Event(type, composites) ==
    Stamp([NoEvent EXCEPT !.type = type, !.composites = composites])

\* last id an upload hands out
MaxImageId == 3

\* width and height of an uploaded image, in pixels
ImageInputs == { <<1, 1>>, <<2, 1>>, <<1, 4>> }

\* pointer positions on the canvas, in percent of its width and height
PointerInputs == { <<50, 50>>, <<40, 60>>, <<100, 0>>, <<0, 100>> }

\* values a slider or its number field hands to the callback, per control
EditInputs ==
    { <<"posX", -1>>, <<"posX", 2>>, <<"posY", 0>>, <<"posY", -3>>,
      <<"width", 1>>, <<"width", 3>>, <<"height", 2>>, <<"rotation", 90>>,
      <<"rotation", 360>> }

\* overlay lists of the custom models the editor may be opened on
OpenInputs ==
    { << [name |-> "logo.png", position |-> [x |-> 50, y |-> 50],
          size |-> [w |-> 30, h |-> 30], rotation |-> 0, aspectRatio |-> <<1, 1>>] >>,
      << [name |-> "logo.png", position |-> [x |-> 50, y |-> 50],
          size |-> [w |-> 30, h |-> 30], rotation |-> 0, aspectRatio |-> <<1, 1>>],
         [name |-> "mark.svg", position |-> [x |-> 45, y |-> 55],
          size |-> [w |-> 30, h |-> 15], rotation |-> 45, aspectRatio |-> <<2, 1>>] >> }

\* Math.max(0, Math.min(100, v))
Clamp(v) == IF v < 0 THEN 0 ELSE IF v > 100 THEN 100 ELSE v

\* overlayImages.find(i => i.id === id): its index, 0 when there is none
RECURSIVE FindIndex(_, _, _)
FindIndex(imgs, id, i) ==
    IF i > Len(imgs) THEN 0
    ELSE IF imgs[i].id = id THEN i
    ELSE FindIndex(imgs, id, i + 1)

\* the axis-aligned box test of _onMouseDown, both sides doubled
InBox(img, x, y) ==
    /\ 2 * x >= 2 * img.position.x - img.size.w
    /\ 2 * x <= 2 * img.position.x + img.size.w
    /\ 2 * y >= 2 * img.position.y - img.size.h
    /\ 2 * y <= 2 * img.position.y + img.size.h

\* a hit loop that runs from the bottom layer up
RECURSIVE HitFromBottom(_, _, _, _)
HitFromBottom(imgs, x, y, i) ==
    IF i > Len(imgs) THEN 0
    ELSE IF InBox(imgs[i], x, y) THEN i
    ELSE HitFromBottom(imgs, x, y, i + 1)

HitIndexBottomFirst(imgs, x, y, i) == HitFromBottom(imgs, x, y, 1)

\* the loop of _onMouseDown from layer i down to the bottom: the first hit
RECURSIVE HitIndex(_, _, _, _)
HitIndex(imgs, x, y, i) ==
    IF i < 1 THEN 0
    ELSE IF InBox(imgs[i], x, y) THEN i
    ELSE HitIndex(imgs, x, y, i - 1)

\* open() on a custom model stored with no overlays: the branch that rebuilds
\* the list is skipped, and the list and nextImageId stay as they are
OpenCustomEmpty ==
    /\ CanAct
    /\ lastEvent' = [Event("open", 0) EXCEPT !.custom = TRUE]
    /\ UNCHANGED <<overlayImages, nextImageId, selectedImageId, isDragging, dragOffset,
                   storeVars, compVars, asyncVars, sessionVars>>

\* open() on a custom model with overlays: the layers are pushed as their
\* images finish loading, order maps push order to the stored index.  The
\* open actions are the calls for another mesh or model than the one edited.
OpenCustom(stored, order) ==
    /\ overlayImages' =
          [i \in 1..Len(stored) |->
              [id |-> i, name |-> stored[order[i]].name,
               position |-> stored[order[i]].position, size |-> stored[order[i]].size,
               rotation |-> stored[order[i]].rotation,
               aspectRatio |-> stored[order[i]].aspectRatio]]
    /\ nextImageId' = Len(stored) + 1
    /\ CanAct
    /\ lastEvent' = [Event("open", 0) EXCEPT !.custom = TRUE, !.opened = stored]
    /\ UNCHANGED <<selectedImageId, isDragging, dragOffset, storeVars, compVars, asyncVars, sessionVars>>

\* open() on a base model
OpenBase ==
    /\ overlayImages' = <<>>
    /\ nextImageId' = 1
    /\ CanAct
    /\ lastEvent' = Event("open", 0)
    /\ UNCHANGED <<selectedImageId, isDragging, dragOffset, storeVars, compVars, asyncVars, sessionVars>>

\* an upload whose selectImage call composites a second time
HandleImageUploadRendersTwice(dim) ==
    /\ Len(overlayImages) < MaxImages
    /\ nextImageId <= MaxImageId
    /\ overlayImages' = Append(overlayImages,
          [id |-> nextImageId, name |-> "upload",
           position |-> [x |-> 50, y |-> 50],
           size |-> [w |-> 30, h |-> (30 * dim[2]) \div dim[1]],
           rotation |-> 0, aspectRatio |-> dim])
    /\ nextImageId' = nextImageId + 1
    /\ selectedImageId' = nextImageId
    /\ CanAct
    /\ lastEvent' = Event("add", 2)
    /\ UNCHANGED <<isDragging, dragOffset, storeVars, compVars, asyncVars, sessionVars>>

\* handleImageUpload with a file that passes validation
HandleImageUpload(dim) ==
    /\ Len(overlayImages) < MaxImages
    /\ nextImageId <= MaxImageId
    /\ overlayImages' = Append(overlayImages,
          [id |-> nextImageId, name |-> "upload",
           position |-> [x |-> 50, y |-> 50],
           size |-> [w |-> 30, h |-> (30 * dim[2]) \div dim[1]],
           rotation |-> 0, aspectRatio |-> dim])
    /\ nextImageId' = nextImageId + 1
    /\ selectedImageId' = nextImageId
    /\ CanAct
    /\ lastEvent' = Event("add", 1)
    /\ UNCHANGED <<isDragging, dragOffset, storeVars, compVars, asyncVars, sessionVars>>

\* a click on a layer of the layers list
SelectImage(id) ==
    /\ FindIndex(overlayImages, id, 1) # 0
    /\ selectedImageId' = id
    /\ CanAct
    /\ lastEvent' = Event("select", 0)
    /\ UNCHANGED <<overlayImages, isDragging, dragOffset, nextImageId, storeVars, compVars, asyncVars, sessionVars>>

DeleteSelectedImage ==
    /\ selectedImageId # 0
    /\ overlayImages' = SelectSeq(overlayImages, LAMBDA i : i.id # selectedImageId)
    /\ selectedImageId' = 0
    /\ CanAct
    /\ lastEvent' = Event("delete", 1)
    /\ UNCHANGED <<isDragging, dragOffset, nextImageId, storeVars, compVars, asyncVars, sessionVars>>

\* resetTexture, confirmed
ResetTexture ==
    /\ overlayImages' = <<>>
    /\ selectedImageId' = 0
    /\ CanAct
    /\ lastEvent' = Event("reset", 0)
    /\ UNCHANGED <<isDragging, dragOffset, nextImageId, storeVars, compVars, asyncVars, sessionVars>>

\* the callback of a slider or of its number field
SetSelected(prop, value) ==
    LET k == FindIndex(overlayImages, selectedImageId, 1)
    IN  /\ k # 0
        /\ overlayImages' =
              IF prop = "posX"
              THEN [overlayImages EXCEPT ![k].position.x = ((value + 1) * 100) \div 2]
              ELSE IF prop = "posY"
              THEN [overlayImages EXCEPT ![k].position.y = ((value + 1) * 100) \div 2]
              ELSE IF prop = "width"
              THEN [overlayImages EXCEPT ![k].size.w = value * 50]
              ELSE IF prop = "height"
              THEN [overlayImages EXCEPT ![k].size.h = value * 50]
              ELSE [overlayImages EXCEPT ![k].rotation = value]
        /\ CanAct
        /\ lastEvent' = Event("edit", 1)
        /\ UNCHANGED <<selectedImageId, isDragging, dragOffset, nextImageId, storeVars, compVars, asyncVars, sessionVars>>

\* a pointer-down that only selects the layer it hits
OnMouseDownSelectOnly(x, y) ==
    LET k == HitIndex(overlayImages, x, y, Len(overlayImages))
    IN  /\ CanAct
        /\ lastEvent' = Stamp([type |-> "down", x |-> x, y |-> y,
                               hit |-> IF k = 0 THEN 0 ELSE overlayImages[k].id,
                               wasIdle |-> (selectedImageId = 0),
                               afterFirstDown |-> FALSE, moved |-> FALSE,
                               composites |-> 0])
        /\ selectedImageId' = IF k = 0 THEN selectedImageId ELSE overlayImages[k].id
        /\ UNCHANGED <<overlayImages, isDragging, dragOffset, nextImageId, storeVars, compVars, asyncVars, sessionVars>>

OnMouseDown(x, y) ==
    LET k == HitIndex(overlayImages, x, y, Len(overlayImages))
    IN  /\ CanAct
        /\ lastEvent' = Stamp([type |-> "down", x |-> x, y |-> y,
                               hit |-> IF k = 0 THEN 0 ELSE overlayImages[k].id,
                               wasIdle |-> (selectedImageId = 0),
                               afterFirstDown |-> FALSE, moved |-> FALSE,
                               composites |-> 0])
        /\ IF k = 0
           THEN UNCHANGED <<selectedImageId, isDragging, dragOffset>>
           ELSE /\ selectedImageId' = overlayImages[k].id
                /\ isDragging' = TRUE
                /\ dragOffset' = [x |-> x - overlayImages[k].position.x,
                                  y |-> y - overlayImages[k].position.y]
        /\ UNCHANGED <<overlayImages, nextImageId, storeVars, compVars, asyncVars, sessionVars>>

\* a pointer-move that moves the selected layer whether or not a drag is on
OnMouseMoveAlways(x, y) ==
    LET k == FindIndex(overlayImages, selectedImageId, 1)
        dragging == selectedImageId # 0 /\ k # 0
    IN  /\ CanAct
        /\ overlayImages' =
              IF dragging
              THEN [overlayImages EXCEPT
                      ![k].position = [x |-> Clamp(x - dragOffset.x),
                                       y |-> Clamp(y - dragOffset.y)]]
              ELSE overlayImages
        /\ lastEvent' = Stamp([type |-> "move", x |-> x, y |-> y, hit |-> 0,
                               wasIdle |-> FALSE,
                               afterFirstDown |-> (/\ lastEvent.type = "down"
                                                   /\ lastEvent.wasIdle
                                                   /\ lastEvent.hit # 0),
                               moved |-> (overlayImages' # overlayImages),
                               composites |-> IF dragging THEN 1 ELSE 0])
        /\ UNCHANGED <<selectedImageId, isDragging, dragOffset, nextImageId, storeVars, compVars, asyncVars, sessionVars>>

\* _onMouseMove; the early return leaves every field as it is
OnMouseMove(x, y) ==
    LET k == FindIndex(overlayImages, selectedImageId, 1)
        dragging == isDragging /\ selectedImageId # 0 /\ k # 0
    IN  /\ CanAct
        /\ overlayImages' =
              IF dragging
              THEN [overlayImages EXCEPT
                      ![k].position = [x |-> Clamp(x - dragOffset.x),
                                       y |-> Clamp(y - dragOffset.y)]]
              ELSE overlayImages
        /\ lastEvent' = Stamp([type |-> "move", x |-> x, y |-> y, hit |-> 0,
                               wasIdle |-> FALSE,
                               afterFirstDown |-> (/\ lastEvent.type = "down"
                                                   /\ lastEvent.wasIdle
                                                   /\ lastEvent.hit # 0),
                               moved |-> (overlayImages' # overlayImages),
                               composites |-> IF dragging THEN 1 ELSE 0])
        /\ UNCHANGED <<selectedImageId, isDragging, dragOffset, nextImageId, storeVars, compVars, asyncVars, sessionVars>>

\* mouseup and mouseleave
OnMouseUp ==
    /\ isDragging' = FALSE
    /\ CanAct
    /\ lastEvent' = Event("up", 0)
    /\ UNCHANGED <<overlayImages, selectedImageId, dragOffset, nextImageId, storeVars, compVars, asyncVars, sessionVars>>

EditorInit == StoreInit

EditorNext ==
    \/ \E stored \in OpenInputs :
          \E order \in { f \in [1..Len(stored) -> 1..Len(stored)] :
                            \A i, j \in 1..Len(stored) : f[i] = f[j] => i = j } :
             OpenCustom(stored, order)
    \/ OpenCustomEmpty
    \/ OpenBase
    \/ \E dim \in ImageInputs : HandleImageUpload(dim)
    \/ \E id \in 1..MaxImageId : SelectImage(id)
    \/ DeleteSelectedImage
    \/ ResetTexture
    \/ \E e \in EditInputs : SetSelected(e[1], e[2])
    \/ \E p \in PointerInputs : OnMouseDown(p[1], p[2])
    \/ \E p \in PointerInputs : OnMouseMove(p[1], p[2])
    \/ OnMouseUp

EditorSpec == EditorInit /\ [][EditorNext]_vars

-----------------------------------------------------------------------------
(* The compositor specification: TextureCompositor.createCompositeTexture.   *)
(* Two calls run on the same base texture and the same overlay list; their   *)
(* image decodes complete in any order.  A canvas is the sequence of the     *)
(* draw operations made on it; lengths are in hundredths of a pixel, so that *)
(* percentage / 100 * size is a whole number.                                *)

\* CONFIG.TEXTURE.COMPOSITE_SIZE
COMPOSITE_SIZE == 2048

\* longest overlay list handed to the compositor
MaxLayers == 3

\* a data URL whose payload is no image
TornURL == [mime |-> "image/png", enc |-> "base64", bytes |-> 3]

\* img.src = imageData fires onload for these and onerror for the others
Decodes(url) == url \in {PngURL, SvgURL}

\* overlays as loadCustomModel returns them; width and height are edited
\* independently, so aspectRatio need not be their quotient
CompositeOverlays ==
    { Overlay("logo.png", Xform(50, 50, 30, 20, 45, 1), PngURL),
      Overlay("mark.svg", Xform(50, 50, 30, 20, 0, 2), SvgURL),
      Overlay("torn.png", Xform(20, 80, 30, 15, 90, 2), TornURL) }

\* the overlay lists: no overlay twice
CompositeLists ==
    { s \in SeqsUpTo(CompositeOverlays, MaxLayers) :
        \A i, k \in 1..Len(s) : i # k => s[i] # s[k] }

\* baseTexture.image: absent, complete and drawable, complete and broken
\* (drawImage throws), or still loading
BaseInputs == {"none", "ready", "broken", "loading"}

\* Math.round of a length given in hundredths
Round(v) == (v + 50) \div 100

\* a draw loop body that sizes the box by the width alone
OverlayDrawSquare(overlay, index) ==
    [op |-> "drawImage", index |-> index, image |-> overlay.imageData,
     x |-> overlay.position.x * COMPOSITE_SIZE,
     y |-> overlay.position.y * COMPOSITE_SIZE,
     w |-> overlay.size.w * COMPOSITE_SIZE,
     h |-> overlay.size.w * COMPOSITE_SIZE,
     rotation |-> overlay.rotation]

\* the body of the draw loop for a decoded overlay: translate(x, y),
\* rotate(rotation), drawImage(img, -w/2, -h/2, w, h)
OverlayDraw(overlay, index) ==
    [op |-> "drawImage", index |-> index, image |-> overlay.imageData,
     x |-> overlay.position.x * COMPOSITE_SIZE,
     y |-> overlay.position.y * COMPOSITE_SIZE,
     w |-> overlay.size.w * COMPOSITE_SIZE,
     h |-> overlay.size.h * COMPOSITE_SIZE,
     rotation |-> overlay.rotation]

ClearRect == [op |-> "clearRect"]
DrawBase == [op |-> "drawBase"]
FillWhite == [op |-> "fillRect", colour |-> "#ffffff"]

\* drawComposite up to the start of the decodes: clear, then the base, or
\* white when there is no base image or drawImage throws on it
DrawComposite(base, overlays) ==
    LET canvas == <<ClearRect, IF base = "ready" THEN DrawBase ELSE FillWhite>>
    IN  IF Len(overlays) = 0
        THEN [phase |-> "resolved", loaded |-> <<>>, arrival |-> <<>>, canvas |-> canvas]
        ELSE [phase |-> "decoding", loaded |-> [i \in 1..Len(overlays) |-> "pending"],
              arrival |-> <<>>, canvas |-> canvas]

\* the executor of a call that draws at once even while the base is loading:
\* drawImage of an image that is not loaded draws nothing
CreateCompositeTextureNoWait(j) ==
    /\ jobs[j].phase = "idle"
    /\ jobs' = [jobs EXCEPT ![j] =
                  IF baseImage = "loading"
                  THEN [DrawComposite("ready", compOverlays)
                          EXCEPT !.canvas = <<ClearRect>>]
                  ELSE DrawComposite(baseImage, compOverlays)]
    /\ UNCHANGED <<baseImage, baseHandler, compOverlays, storeVars, editorVars, asyncVars, sessionVars>>

\* the executor of createCompositeTexture: draw at once, or install the
\* onload and onerror handlers on a base image that is still loading
CreateCompositeTexture(j) ==
    /\ jobs[j].phase = "idle"
    /\ IF baseImage = "loading"
       THEN /\ baseHandler' = j
            /\ jobs' = [jobs EXCEPT ![j].phase = "waitBase"]
       ELSE /\ baseHandler' = baseHandler
            /\ jobs' = [jobs EXCEPT ![j] = DrawComposite(baseImage, compOverlays)]
    /\ UNCHANGED <<baseImage, compOverlays, storeVars, editorVars, asyncVars, sessionVars>>

\* the base image finishes loading, well or not; the installed handler, if
\* any, runs drawComposite
BaseSettles(outcome) ==
    /\ baseImage = "loading"
    /\ baseImage' = outcome
    /\ jobs' = IF baseHandler = 0 THEN jobs
               ELSE [jobs EXCEPT ![baseHandler] = DrawComposite(outcome, compOverlays)]
    /\ UNCHANGED <<baseHandler, compOverlays, storeVars, editorVars, asyncVars, sessionVars>>

\* an overlay decode whose failure rejects the whole call
ImageSettlesOrRejects(j, i) ==
    /\ jobs[j].phase = "decoding"
    /\ i \in 1..Len(compOverlays)
    /\ jobs[j].loaded[i] = "pending"
    /\ jobs' = IF Decodes(compOverlays[i].imageData)
               THEN [jobs EXCEPT ![j].loaded[i] = "ok",
                                 ![j].arrival = Append(@, i)]
               ELSE [jobs EXCEPT ![j].phase = "rejected"]
    /\ UNCHANGED <<baseImage, baseHandler, compOverlays, storeVars, editorVars, asyncVars, sessionVars>>

\* img.onload / img.onerror of overlay i: its promise resolves with the image
\* or with null
ImageSettles(j, i) ==
    /\ jobs[j].phase = "decoding"
    /\ i \in 1..Len(compOverlays)
    /\ jobs[j].loaded[i] = "pending"
    /\ jobs' = [jobs EXCEPT ![j].loaded[i] =
                               IF Decodes(compOverlays[i].imageData) THEN "ok" ELSE "failed",
                            ![j].arrival = Append(@, i)]
    /\ UNCHANGED <<baseImage, baseHandler, compOverlays, storeVars, editorVars, asyncVars, sessionVars>>

\* loadedImages.forEach from item k on: a null item is skipped
RECURSIVE DrawLoaded(_, _, _)
DrawLoaded(overlays, loaded, k) ==
    IF k > Len(overlays) THEN <<>>
    ELSE (IF loaded[k] = "ok" THEN <<OverlayDraw(overlays[k], k)>> ELSE <<>>)
         \o DrawLoaded(overlays, loaded, k + 1)

\* the images drawn in the order their decodes completed
RECURSIVE DrawArrived(_, _, _)
DrawArrived(overlays, loaded, arrival) ==
    IF arrival = <<>> THEN <<>>
    ELSE (IF loaded[Head(arrival)] = "ok"
          THEN <<OverlayDraw(overlays[Head(arrival)], Head(arrival))>> ELSE <<>>)
         \o DrawArrived(overlays, loaded, Tail(arrival))

\* a then-callback that draws in completion order
PromiseAllThenAsArrived(j) ==
    /\ jobs[j].phase = "decoding"
    /\ \A i \in 1..Len(compOverlays) : jobs[j].loaded[i] # "pending"
    /\ jobs' = [jobs EXCEPT
                  ![j].phase = "resolved",
                  ![j].canvas = @ \o DrawArrived(compOverlays, jobs[j].loaded,
                                                 jobs[j].arrival)]
    /\ UNCHANGED <<baseImage, baseHandler, compOverlays, storeVars, editorVars, asyncVars, sessionVars>>

\* the then-callback of Promise.all(imageLoadPromises): draw, then resolve
PromiseAllThen(j) ==
    /\ jobs[j].phase = "decoding"
    /\ \A i \in 1..Len(compOverlays) : jobs[j].loaded[i] # "pending"
    /\ jobs' = [jobs EXCEPT
                  ![j].phase = "resolved",
                  ![j].canvas = @ \o DrawLoaded(compOverlays, jobs[j].loaded, 1)]
    /\ UNCHANGED <<baseImage, baseHandler, compOverlays, storeVars, editorVars, asyncVars, sessionVars>>

CompositeInit ==
    /\ models = EmptyStore
    /\ blobs = EmptyStore
    /\ saved = EmptyStore
    /\ saveInfo = NoSave
    /\ loadInfo = NoLoad
    /\ delInfo = NoDel
    /\ file = NoFile
    /\ importInfo = NoImport
    /\ clearInfo = NoClear
    /\ EditorStart
    /\ baseImage \in BaseInputs
    /\ baseHandler = 0
    /\ compOverlays \in CompositeLists
    /\ jobs = [j \in Jobs |-> NoJob]
    /\ AsyncStart
    /\ SessionStart

CompositeNext ==
    \/ \E j \in Jobs : CreateCompositeTexture(j)
    \/ \E outcome \in {"ready", "broken"} : BaseSettles(outcome)
    \/ \E j \in Jobs, i \in 1..MaxLayers : ImageSettles(j, i)
    \/ \E j \in Jobs : PromiseAllThen(j)

CompositeSpec == CompositeInit /\ [][CompositeNext]_vars

\* the browser delivers every load and error event and runs every callback
\* that is due
CompositeFairSpec == CompositeSpec /\ WF_vars(CompositeNext)

-----------------------------------------------------------------------------
(* Overlapping saves: saveCustomModel awaits every put, so the puts of two   *)
(* calls for the same name interleave in any order.  A step is one put (the  *)
(* synchronous code up to it included); a put is one IndexedDB transaction.  *)

\* longest overlay list of a record saved by an overlapping call
MaxCallOverlays == 2

\* the name the overlapping calls save under
CallName == "a"

CallInputs == {r \in RecordInputs : Len(r.overlayImages) <= MaxCallOverlays}

\* the first overlay from i on that has imageData, Len + 1 when there is none
RECURSIVE NextWithImage(_, _)
NextWithImage(imgs, i) ==
    IF i > Len(imgs) THEN i
    ELSE IF imgs[i].imageData # NoImage THEN i
    ELSE NextWithImage(imgs, i + 1)

\* saveCustomModel up to its first await
BeginSave(c, modelData) ==
    /\ calls[c].phase = "idle"
    /\ calls' = [calls EXCEPT ![c] =
                   [phase |-> "saving", modelData |-> modelData,
                    i |-> NextWithImage(modelData.overlayImages, 1),
                    overlayKeys |-> <<>>, ok |-> FALSE, log |-> <<>>]]
    /\ UNCHANGED <<storeVars, editorVars, compVars, sessionVars>>

\* a blob loop that goes on to the next overlay when a put rejects
BlobPutGoesOn(c, fails) ==
    LET call == calls[c]
        imgs == call.modelData.overlayImages
        key == OverlayKey(CallName, call.i - 1)
    IN  /\ call.phase = "saving"
        /\ call.i <= Len(imgs)
        /\ blobs' = IF fails THEN blobs
                    ELSE Put(blobs, key, dataURLToBlob(imgs[call.i].imageData))
        /\ calls' = [calls EXCEPT
                       ![c].i = NextWithImage(imgs, call.i + 1),
                       ![c].overlayKeys = IF fails THEN @ ELSE Append(@, key),
                       ![c].log = Append(@, [store |-> "blobs", key |-> key,
                                             ok |-> ~fails])]
        /\ UNCHANGED <<models, storeHist, batchVars, editorVars, compVars, sessionVars>>

\* the put of the blob of overlay i and the loop up to the next put; a put
\* that rejects ends the call in the catch block
BlobPut(c, fails) ==
    LET call == calls[c]
        imgs == call.modelData.overlayImages
        key == OverlayKey(CallName, call.i - 1)
    IN  /\ call.phase = "saving"
        /\ call.i <= Len(imgs)
        /\ blobs' = IF fails THEN blobs
                    ELSE Put(blobs, key, dataURLToBlob(imgs[call.i].imageData))
        /\ calls' = [calls EXCEPT
                       ![c].phase = IF fails THEN "done" ELSE "saving",
                       ![c].i = NextWithImage(imgs, call.i + 1),
                       ![c].overlayKeys = IF fails THEN @ ELSE Append(@, key),
                       ![c].log = Append(@, [store |-> "blobs", key |-> key,
                                             ok |-> ~fails])]
        /\ UNCHANGED <<models, storeHist, batchVars, editorVars, compVars, sessionVars>>

\* the put of the metadata document, after the blob loop, and the return
MetadataPut(c, fails) ==
    LET call == calls[c]
    IN  /\ call.phase = "saving"
        /\ call.i > Len(call.modelData.overlayImages)
        /\ models' = IF fails THEN models
                     ELSE Put(models, CallName,
                              Metadata(CallName, call.modelData, call.overlayKeys))
        /\ calls' = [calls EXCEPT
                       ![c].phase = "done",
                       ![c].ok = ~fails,
                       ![c].log = Append(@, [store |-> "models", key |-> CallName,
                                             ok |-> ~fails])]
        /\ UNCHANGED <<blobs, storeHist, batchVars, editorVars, compVars, sessionVars>>

OverlapNext ==
    \/ \E c \in Calls, modelData \in CallInputs : BeginSave(c, modelData)
    \/ \E c \in Calls, fails \in BOOLEAN : BlobPut(c, fails)
    \/ \E c \in Calls, fails \in BOOLEAN : MetadataPut(c, fails)

OverlapSpec == StoreInit /\ [][OverlapNext]_vars

-----------------------------------------------------------------------------
(* Loading a model into the scene: loadModel of main.js, one action per
   continuation.  An object in the scene is named by the request that
   loaded it. *)

\* ModelManager.getModel: a stored custom record first, then the registry
GetModel(name) ==
    IF customModels[name] # NoModel THEN "custom"
    ELSE IF name \in Registry THEN "registry"
    ELSE NoModel

\* the custom records of the loader specification
StoredCustom == [n \in ModelNames |-> IF n = "mine" THEN "chair" ELSE NoModel]

\* loadModel(name) up to its first await
LoadModel(r, name) ==
    /\ requests[r].phase = "idle"
    /\ \A q \in Requests : q < r => requests[q].phase # "idle"
    /\ requests' = [requests EXCEPT ![r] = [NoRequest EXCEPT !.phase = "getModel",
                                                            !.name = name]]
    /\ UNCHANGED <<scene, activeModel, activeMesh, pathVars,
                   storeVars, editorVars, compVars, asyncVars>>

\* cleanupActiveModel
CleanupActiveModel ==
    IF activeModel # 0
    THEN /\ scene' = scene \ {activeModel}
         /\ activeModel' = 0
         /\ activeMesh' = 0
    ELSE UNCHANGED <<scene, activeModel, activeMesh>>

\* getModel resolves: an unknown name returns; otherwise the active model is
\* cleaned up and the load goes on to await getLoadingPaths.  overlays: the
\* stored record has overlays.
GetModelResolves(r, overlays) ==
    LET type == GetModel(requests[r].name)
    IN  /\ requests[r].phase = "getModel"
        /\ IF type = NoModel
           THEN /\ requests' = [requests EXCEPT ![r].phase = "done"]
                /\ UNCHANGED <<scene, activeModel, activeMesh>>
           ELSE /\ requests' = [requests EXCEPT ![r].phase = "getLoadingPaths",
                                                ![r].type = type,
                                                ![r].overlays = (type = "custom" /\ overlays)]
                /\ CleanupActiveModel
        /\ UNCHANGED <<pathVars, storeVars, editorVars, compVars, asyncVars>>

\* getLoadingPaths resolves: without paths the load returns, with paths
\* objLoader.load is started (for a registry model after its MTL file)
LoadingPathsResolve(r) ==
    LET base == IF requests[r].type = "custom" THEN customModels[requests[r].name]
                ELSE requests[r].name
    IN  /\ requests[r].phase = "getLoadingPaths"
        /\ requests' = [requests EXCEPT
                          ![r].phase = IF base \in Registry THEN "objLoader" ELSE "done"]
        /\ UNCHANGED <<scene, activeModel, activeMesh, pathVars,
                       storeVars, editorVars, compVars, asyncVars>>

\* the onLoad callback of objLoader.load, or its onError callback
ObjectLoaded(r, ok) ==
    /\ requests[r].phase = "objLoader"
    /\ IF ok
       THEN /\ activeMesh' = IF activeMesh = 0 THEN r ELSE activeMesh
            /\ scene' = scene \cup {r}
            /\ activeModel' = r
            /\ requests' = [requests EXCEPT
                              ![r].loaded = TRUE,
                              ![r].phase = IF requests[r].overlays THEN "composite"
                                           ELSE "done"]
       ELSE /\ requests' = [requests EXCEPT ![r].phase = "done"]
            /\ UNCHANGED <<scene, activeModel, activeMesh>>
    /\ UNCHANGED <<pathVars, storeVars, editorVars, compVars, asyncVars>>

\* createCompositeTexture settles: then() puts the composite on the material
CompositeSettles(r, ok) ==
    /\ requests[r].phase = "composite"
    /\ requests' = [requests EXCEPT ![r].phase = "done",
                                    ![r].map = IF ok THEN "composite" ELSE @]
    /\ UNCHANGED <<scene, activeModel, activeMesh, pathVars,
                   storeVars, editorVars, compVars, asyncVars>>

LoaderInit ==
    /\ models = EmptyStore
    /\ blobs = EmptyStore
    /\ saved = EmptyStore
    /\ saveInfo = NoSave
    /\ loadInfo = NoLoad
    /\ delInfo = NoDel
    /\ file = NoFile
    /\ importInfo = NoImport
    /\ clearInfo = NoClear
    /\ EditorStart
    /\ CompositorStart
    /\ AsyncStart
    /\ LoaderStart
    /\ customModels = StoredCustom
    /\ activeModelName = NoModel
    /\ customModelName = NoModel
    /\ pathCall = NoPathCall

LoaderNext ==
    \/ \E r \in Requests, name \in ModelNames : LoadModel(r, name)
    \/ \E r \in Requests, overlays \in BOOLEAN : GetModelResolves(r, overlays)
    \/ \E r \in Requests : LoadingPathsResolve(r)
    \/ \E r \in Requests, ok \in BOOLEAN : ObjectLoaded(r, ok)
    \/ \E r \in Requests, ok \in BOOLEAN : CompositeSettles(r, ok)

LoaderSpec == LoaderInit /\ [][LoaderNext]_vars

-----------------------------------------------------------------------------
(* The names of custom models: the names open() and saveAsCustomModel of the
   editor keep, the basedOn they store, and getLoadingPaths, which follows
   basedOn, one action per call of the recursion. *)

\* open(mesh, originalModelName): the names it sets.  sameMesh: the mesh is
\* the one the editor holds.
OpenNames(name, sameMesh) ==
    /\ GetModel(name) # NoModel
    /\ IF sameMesh /\ activeModelName = name
       THEN UNCHANGED <<activeModelName, customModelName>>
       ELSE IF GetModel(name) = "custom"
       THEN /\ activeModelName' = customModels[name]
            /\ customModelName' = name
       ELSE /\ activeModelName' = name
            /\ customModelName' = NoModel
    /\ UNCHANGED <<customModels, pathCall, loaderVars,
                   storeVars, editorVars, compVars, asyncVars>>

\* saveAsCustomModel: customName is what the user types at the prompt when
\* the session has no custom name yet, ok what saveCustomModel returns
SaveAsCustomModel(customName, ok) ==
    LET name == IF customModelName = NoModel THEN customName ELSE customModelName
    IN  /\ activeModelName # NoModel
        /\ customModelName' = name
        /\ customModels' = IF ok THEN [customModels EXCEPT ![name] = activeModelName]
                           ELSE customModels
        /\ UNCHANGED <<activeModelName, pathCall, loaderVars,
                       storeVars, editorVars, compVars, asyncVars>>

\* getLoadingPaths(name), called from outside
GetLoadingPaths(name) ==
    /\ pathCall.phase # "running"
    /\ pathCall' = [NoPathCall EXCEPT !.phase = "running", !.name = name, !.arg = name]
    /\ UNCHANGED <<customModels, activeModelName, customModelName, loaderVars,
                   storeVars, editorVars, compVars, asyncVars>>

\* the body of getLoadingPaths(arg) after loadCustomModel(arg) resolved: a
\* custom record makes it call itself on the basedOn of the record,
\* otherwise it returns the paths of the registry model, or null
LoadingPathsStep ==
    /\ pathCall.phase = "running"
    /\ pathCall' = IF customModels[pathCall.arg] # NoModel
                   THEN [pathCall EXCEPT !.arg = customModels[pathCall.arg],
                                         !.hops = (@ + 1) % MaxHops]
                   ELSE [pathCall EXCEPT !.phase = "done",
                                         !.result = IF pathCall.arg \in Registry
                                                    THEN "paths" ELSE "null"]
    /\ UNCHANGED <<customModels, activeModelName, customModelName, loaderVars,
                   storeVars, editorVars, compVars, asyncVars>>

PathsNext ==
    \/ \E name \in ModelNames, sameMesh \in BOOLEAN : OpenNames(name, sameMesh)
    \/ \E customName \in ModelNames, ok \in BOOLEAN : SaveAsCustomModel(customName, ok)
    \/ \E name \in ModelNames : GetLoadingPaths(name)
    \/ LoadingPathsStep

PathsSpec == StoreInit /\ [][PathsNext]_vars

\* a call that can go on does go on
PathsFairSpec == PathsSpec /\ WF_vars(LoadingPathsStep)

-----------------------------------------------------------------------------
(* Claims on single calls *)

\* position, size and rotation of each overlay of a list
Transforms(imgs) ==
    [i \in 1..Len(imgs) |-> [position |-> imgs[i].position, size |-> imgs[i].size,
                              rotation |-> imgs[i].rotation]]

\* a load directly after a save of the same name (only loads in between)
LoadAfterSave ==
    /\ loadInfo.op = "load"
    /\ saveInfo.op = "save"
    /\ loadInfo.name = saveInfo.name

\* C1: a load that follows a successful save of record R under the same name
\* returns as many overlays as R has, in R's order, with R's position, size
\* and rotation.
C1_RoundTrip ==
    (LoadAfterSave /\ saveInfo.ok) =>
        /\ loadInfo.result.found
        /\ Len(loadInfo.result.overlayImages) = Len(saved[loadInfo.name])
        /\ Transforms(loadInfo.result.overlayImages) = Transforms(saved[loadInfo.name])

\* C2: a load that follows a failed save returns what a load returned before
\* that save began (the same overlays, images and transforms, or not-found).
C2_FailedSaveKeepsPrior ==
    (LoadAfterSave /\ ~saveInfo.ok) => loadInfo.result = saveInfo.before

\* C3: after deleteCustomModel(name) returned true, 'models' has no entry for
\* name and 'blobs' has no key overlay:<name>:<i>.
C3_DeleteRemovesAll ==
    (delInfo.op = "delete" /\ delInfo.ok) =>
        /\ ~Has(models, delInfo.name)
        /\ \A key \in DOMAIN blobs : key[1] # delInfo.name

\* the overlays of a saved record whose blob is still stored, in order
RECURSIVE Surviving(_, _, _, _)
Surviving(bl, name, imgs, i) ==
    IF i > Len(imgs) THEN <<>>
    ELSE IF imgs[i].imageData # NoImage /\ Has(bl, OverlayKey(name, i - 1))
    THEN <<imgs[i]>> \o Surviving(bl, name, imgs, i + 1)
    ELSE Surviving(bl, name, imgs, i + 1)

\* some blob the stored record references is gone
SomeBlobMissing(name) ==
    \E i \in 1..Len(models[name].overlayKeys) : ~Has(blobs, models[name].overlayKeys[i])

\* C5: when blobs a stored record references have been removed, the load
\* returns exactly the overlays whose blob is still stored, each with the
\* transform it was saved with, in the saved order.
C5_PartialLoad ==
    (loadInfo.op = "load" /\ Has(models, loadInfo.name) /\ SomeBlobMissing(loadInfo.name)) =>
        /\ loadInfo.result.found
        /\ Transforms(loadInfo.result.overlayImages)
             = Transforms(Surviving(blobs, loadInfo.name, saved[loadInfo.name], 1))

-----------------------------------------------------------------------------
(* Claims on export, import and clear-all *)

\* position, size, rotation and aspect ratio of each overlay of a list
FullTransforms(imgs) ==
    [i \in 1..Len(imgs) |-> [position |-> imgs[i].position, size |-> imgs[i].size,
                              rotation |-> imgs[i].rotation,
                              aspectRatio |-> imgs[i].aspectRatio]]

\* the exported document has been imported into an empty store, every record saved
ImportedExport ==
    /\ importInfo.op = "done"
    /\ importInfo.fromExport
    /\ importInfo.emptyBefore
    /\ importInfo.importedCount = importInfo.total

\* C6: after the exported document was imported into an empty store, the store
\* holds exactly the exported names, and each loads with as many overlays as
\* exported, with the exported position, size, rotation and aspect ratio, in
\* the exported order.
C6_ExportImportReproduces ==
    ImportedExport =>
        /\ GetAllCustomModelNames(models)
             = [i \in 1..Len(file.entries) |-> file.entries[i].name]
        /\ \A i \in 1..Len(file.entries) :
             LET m == LoadCustomModel(models, blobs, file.entries[i].name)
             IN  /\ m.found
                 /\ Len(m.overlayImages) = Len(file.entries[i].data.overlayImages)
                 /\ FullTransforms(m.overlayImages)
                      = FullTransforms(file.entries[i].data.overlayImages)

C6_Witness ==
    /\ ImportedExport
    /\ Len(file.entries) = 2
    /\ \E i \in 1..2 : Len(file.entries[i].data.overlayImages) = 2

\* one pass of the import loop
IsImportStep == importInfo.op = "running" /\ importInfo'.next = importInfo.next + 1

\* C7: a pass of the import loop asks for a decision exactly when the entry's
\* name is already stored; on 'skip' both namespaces stay as they are and the
\* skipped count grows by one; on 'overwrite' with a save that returns true the
\* stored record is the document's record and its images are the stored blobs.
C7_ConflictDecision ==
    [][IsImportStep =>
        LET entry == importInfo.entries[importInfo.next]
            n == entry.name
            imgs == entry.data.overlayImages
            e == importInfo'.log[Len(importInfo'.log)]
        IN  /\ Len(importInfo'.log) = Len(importInfo.log) + 1
            /\ e.name = n
            /\ e.asked = (IF Has(models, n) THEN 1 ELSE 0)
            /\ (e.decision = "none") <=> ~Has(models, n)
            /\ (e.decision = "skip") =>
                  /\ models' = models
                  /\ blobs' = blobs
                  /\ e.outcome = "skipped"
                  /\ importInfo'.skippedCount = importInfo.skippedCount + 1
                  /\ importInfo'.importedCount = importInfo.importedCount
            /\ (e.decision = "overwrite" /\ e.outcome = "imported") =>
                  /\ Has(models', n)
                  /\ models'[n].basedOn = entry.data.basedOn
                  /\ models'[n].materialPreset = entry.data.materialPreset
                  /\ models'[n].overlayMetadata
                       = [i \in 1..Len(imgs) |-> OverlayMetadata(imgs[i])]
                  /\ \A i \in 1..Len(imgs) :
                        imgs[i].imageData # NoImage =>
                           /\ Has(blobs', OverlayKey(n, i - 1))
                           /\ blobs'[OverlayKey(n, i - 1)] = dataURLToBlob(imgs[i].imageData)
                  /\ \A m \in DOMAIN models \ {n} : models'[m] = models[m]
                  /\ importInfo'.skippedCount = importInfo.skippedCount
    ]_vars

C7_Witness ==
    /\ importInfo.op = "done"
    /\ importInfo.total = 2
    /\ Len(importInfo.log) = 2
    /\ importInfo.log[1].decision = "skip"
    /\ importInfo.log[2].decision = "overwrite"
    /\ importInfo.log[2].outcome = "imported"

\* the counts the returned object reports
ReportedImported ==
    IF importInfo.result.success THEN importInfo.result.count ELSE 0
ReportedSkipped ==
    IF importInfo.result.success THEN importInfo.result.skipped
    ELSE IF Len(importInfo.result.error) = 3 THEN importInfo.result.error[2]
    ELSE 0
ReportedFailed ==
    IF "failed" \in DOMAIN importInfo.result THEN importInfo.result.failed ELSE 0

\* C8: the object an import over M records returns reports imported, skipped
\* and failed counts that sum to M.
C8_SummaryCountsSumToM ==
    importInfo.op = "done" =>
        ReportedImported + ReportedSkipped + ReportedFailed = importInfo.total

\* C9: an import has passed over every record of the document and a clear-all
\* has attempted the delete of every stored name, whichever save or delete
\* failed, and each has returned an object and has not rejected.
C9_BatchNotStopped ==
    /\ importInfo.op = "done" =>
          /\ Len(importInfo.log) = importInfo.total
          /\ "success" \in DOMAIN importInfo.result
          /\ importInfo.result.success \/ Len(importInfo.result.error) = 3
    /\ clearInfo.op = "clear" =>
          /\ clearInfo.attempted = clearInfo.names
          /\ clearInfo.result.success

C9_Witness ==
    /\ importInfo.op = "done"
    /\ Len(importInfo.log) = 2
    /\ importInfo.log[1].outcome = "failed"
    /\ importInfo.log[1].decision = "overwrite"
    /\ importInfo.log[2].outcome = "imported"

-----------------------------------------------------------------------------
(* Claims on the editor *)

\* C4: in every reachable editor state, position.x, position.y, size.w and
\* size.h of every overlay lie in [0,100].
C4_PositionSizeInRange ==
    \A i \in 1..Len(overlayImages) :
        /\ overlayImages[i].position.x \in 0..100
        /\ overlayImages[i].position.y \in 0..100
        /\ overlayImages[i].size.w \in 0..100
        /\ overlayImages[i].size.h \in 0..100

\* the last event was a pointer-down, with nothing selected, that hit a layer
FirstDownHit ==
    /\ lastEvent.type = "down"
    /\ lastEvent.wasIdle
    /\ lastEvent.hit # 0

\* C10 as claimed: after a pointer-down that hit an overlay while nothing was
\* selected, the overlay is selected and the controller is not dragging, and
\* the pointer-move that follows does not move the overlay.
C10_FirstDownSelectsOnly ==
    /\ FirstDownHit => (selectedImageId = lastEvent.hit /\ ~isDragging)
    /\ (lastEvent.type = "move" /\ lastEvent.afterFirstDown) => ~lastEvent.moved

\* C10 as amended: a pointer-down that hits an overlay while nothing is
\* selected selects it, starts dragging and captures the pointer-to-centre
\* offset; the pointer-move that follows puts the overlay at the pointer
\* position minus that offset, clamped to [0,100].
C10_FirstDownSelectsAndDrags ==
    LET k == FindIndex(overlayImages, selectedImageId, 1)
    IN  /\ FirstDownHit =>
              /\ selectedImageId = lastEvent.hit
              /\ k # 0
              /\ isDragging
              /\ dragOffset = [x |-> lastEvent.x - overlayImages[k].position.x,
                               y |-> lastEvent.y - overlayImages[k].position.y]
        /\ (lastEvent.type = "move" /\ lastEvent.afterFirstDown) =>
              /\ k # 0
              /\ isDragging
              /\ overlayImages[k].position
                   = [x |-> Clamp(lastEvent.x - dragOffset.x),
                      y |-> Clamp(lastEvent.y - dragOffset.y)]

C10_Witness ==
    /\ lastEvent.type = "move"
    /\ lastEvent.afterFirstDown
    /\ dragOffset # [x |-> 0, y |-> 0]
    /\ Len(overlayImages) = 2
    /\ overlayImages[FindIndex(overlayImages, selectedImageId, 1)].position
         = [x |-> 95, y |-> 5]

\* a step that handles one more pointer or panel event of the given type
IsEvent(type) ==
    /\ lastEvent'.seq = lastEvent.seq + 1
    /\ lastEvent'.type = type

\* C11: a pointer-up or pointer-leave while dragging ends the drag, keeps the
\* same overlay selected and keeps every overlay where the last drag step put
\* it; a pointer-move while not dragging changes no overlay, and only a
\* pointer-down starts dragging again.
C11_UpReturnsToSelected ==
    [][ /\ (IsEvent("up") /\ isDragging) =>
              /\ ~isDragging'
              /\ selectedImageId' = selectedImageId
              /\ overlayImages' = overlayImages
        /\ (IsEvent("move") /\ ~isDragging) =>
              /\ overlayImages' = overlayImages
              /\ ~isDragging'
        /\ (~isDragging /\ isDragging') => IsEvent("down") ]_vars

C11_Witness ==
    /\ lastEvent.type = "move"
    /\ lastEvent.seq = MaxEvents
    /\ ~isDragging
    /\ selectedImageId # 0
    /\ FindIndex(overlayImages, selectedImageId, 1) # 0
    /\ overlayImages[FindIndex(overlayImages, selectedImageId, 1)].position
         = [x |-> 95, y |-> 5]
    /\ lastEvent.x # 100

\* the layers whose axis-aligned box [position - size/2, position + size/2]
\* holds the point (x, y); halves are avoided by doubling both sides
BoxesHolding(imgs, x, y) ==
    {i \in 1..Len(imgs) :
        /\ 2 * imgs[i].position.x - imgs[i].size.w <= 2 * x
        /\ 2 * x <= 2 * imgs[i].position.x + imgs[i].size.w
        /\ 2 * imgs[i].position.y - imgs[i].size.h <= 2 * y
        /\ 2 * y <= 2 * imgs[i].position.y + imgs[i].size.h}

Topmost(S) == CHOOSE i \in S : \A j \in S : j <= i

\* C12: a pointer-down selects the layer latest in list order among those
\* whose axis-aligned box holds the pointer, whatever the rotation of the
\* layers; when no box holds the pointer, the selection and the dragging flag
\* stay as they were.
C12_TopmostAxisAlignedHit ==
    [][ IsEvent("down") =>
          LET S == BoxesHolding(overlayImages, lastEvent'.x, lastEvent'.y)
          IN  IF S = {}
              THEN /\ selectedImageId' = selectedImageId
                   /\ isDragging' = isDragging
                   /\ lastEvent'.hit = 0
              ELSE /\ selectedImageId' = overlayImages[Topmost(S)].id
                   /\ lastEvent'.hit = overlayImages[Topmost(S)].id ]_vars

C12_Witness ==
    /\ lastEvent.type = "down"
    /\ Len(overlayImages) = 2
    /\ BoxesHolding(overlayImages, lastEvent.x, lastEvent.y) = {1, 2}
    /\ overlayImages[2].rotation = 45
    /\ overlayImages[1].rotation = 0
    /\ selectedImageId = overlayImages[2].id
    /\ lastEvent.hit = overlayImages[2].id

-----------------------------------------------------------------------------
(* Claims on the compositor *)

\* the overlay draws of a canvas, in the order they were made
OverlayDraws(canvas) == SelectSeq(canvas, LAMBDA d : d.op = "drawImage")

Resolved(j) == jobs[j].phase = "resolved"

\* C14: the overlays a finished createCompositeTexture call has drawn appear
\* on its canvas in list order, each with the image and the transform of its
\* list entry, whatever the order in which the decodes completed.
C14_DrawsInListOrder ==
    \A j \in Jobs :
        Resolved(j) =>
            LET d == OverlayDraws(jobs[j].canvas)
            IN  /\ \A a, b \in 1..Len(d) : a < b => d[a].index < d[b].index
                /\ \A a \in 1..Len(d) :
                      /\ d[a].index \in 1..Len(compOverlays)
                      /\ d[a].image = compOverlays[d[a].index].imageData
                      /\ d[a].rotation = compOverlays[d[a].index].rotation

C14_Witness ==
    /\ Resolved(1)
    /\ Len(compOverlays) = 3
    /\ jobs[1].arrival = <<3, 2, 1>>
    /\ Len(OverlayDraws(jobs[1].canvas)) = 2
    /\ OverlayDraws(jobs[1].canvas)[1].index = 1
    /\ OverlayDraws(jobs[1].canvas)[2].index = 2

\* the list indices of the overlays whose image decodes
Decodable == {i \in 1..Len(compOverlays) : Decodes(compOverlays[i].imageData)}

\* what a finished call has on its canvas: the base, or white when the base
\* image is absent or cannot be drawn, and exactly the overlays that decoded
BaseAndDecoded(j) ==
    LET canvas == jobs[j].canvas
        d == OverlayDraws(canvas)
    IN  /\ Len(canvas) = 2 + Len(d)
        /\ canvas[1] = ClearRect
        /\ canvas[2] = IF baseImage = "ready" THEN DrawBase ELSE FillWhite
        /\ {d[a].index : a \in 1..Len(d)} = Decodable
        /\ Len(d) = Cardinality(Decodable)

C17_PercentToPixels ==
    \A j \in Jobs :
        \A a \in 1..Len(jobs[j].canvas) :
            LET d == jobs[j].canvas[a]
            IN  d.op = "drawImage" =>
                  LET o == compOverlays[d.index]
                  IN  /\ <<d.x, d.y>> = <<o.position.x * COMPOSITE_SIZE,
                                          o.position.y * COMPOSITE_SIZE>>
                      /\ <<d.w, d.h>> = <<o.size.w * COMPOSITE_SIZE,
                                          o.size.h * COMPOSITE_SIZE>>
                      /\ (/\ o.position = [x |-> 50, y |-> 50]
                          /\ o.size = [w |-> 30, h |-> 20]
                          /\ COMPOSITE_SIZE = 2048) =>
                            /\ <<d.x, d.y>> = <<102400, 102400>>
                            /\ <<Round(d.x), Round(d.y)>> = <<1024, 1024>>
                            /\ <<Round(d.w), Round(d.h)>> = <<614, 410>>

C17_Witness ==
    /\ Resolved(1)
    /\ Len(OverlayDraws(jobs[1].canvas)) = 2
    /\ OverlayDraws(jobs[1].canvas)[1].rotation = 45
    /\ OverlayDraws(jobs[1].canvas)[2].rotation = 0
    /\ \A a \in 1..2 :
          /\ Round(OverlayDraws(jobs[1].canvas)[a].w) = 614
          /\ Round(OverlayDraws(jobs[1].canvas)[a].h) = 410
          /\ OverlayDraws(jobs[1].canvas)[a].x = 102400

-----------------------------------------------------------------------------
(* Claims on storage errors, clear-all and load *)

\* C18 as claimed: a save that failed shows the storage-full notice exactly
\* when the put that rejected failed because the storage is full.
C18_QuotaBranchOnQuotaOnly ==
    (saveInfo.op = "save" /\ ~saveInfo.ok) =>
        (saveInfo.notice <=> saveInfo.cause = "QuotaExceededError")

\* the records a clear-all call removed
Removed == DOMAIN clearInfo.referenced \ DOMAIN models

\* C19 as claimed: after clearAllCustomModels returned success with count c,
\* 'models' is empty, no blob that a removed record named is stored, and c is
\* the number of records removed.
C19_ClearSuccessMeansEmpty ==
    (clearInfo.op = "clear" /\ clearInfo.result.success) =>
        /\ models = EmptyStore
        /\ \A n \in Removed : clearInfo.referenced[n] \cap DOMAIN blobs = {}
        /\ clearInfo.result.count = Cardinality(Removed)

\* C20 as claimed: loadCustomModel returns the not-found result exactly when
\* no metadata is stored under the name, and a stored record with zero
\* overlays loads as a record with an empty overlay list.
C20_NotFoundIffNoMetadata ==
    loadInfo.op = "load" =>
        /\ ~loadInfo.result.found <=> ~Has(models, loadInfo.name)
        /\ (/\ Has(models, loadInfo.name)
            /\ models[loadInfo.name].overlayMetadata = <<>>) =>
              /\ loadInfo.result.found
              /\ loadInfo.result.overlayImages = <<>>

-----------------------------------------------------------------------------
(* Claims on the editor: rotation, reopening, selection *)

\* C21 as claimed: in every editor state the rotation of every layer is at
\* least 0 and less than 360, after any slider or typed rotation edit.
C21_RotationInRange ==
    \A i \in 1..Len(overlayImages) :
        /\ overlayImages[i].rotation >= 0
        /\ overlayImages[i].rotation < 360

-----------------------------------------------------------------------------
(* Claims on overlapping saves *)

\* the keys of the puts a call logged before its put number k
PutsBefore(c, k) == {calls[c].log[j].key : j \in 1..(k - 1)}

\* the blob keys a save of modelData has to write
KeysToWrite(modelData) ==
    {OverlayKey(CallName, i - 1) :
        i \in {n \in 1..Len(modelData.overlayImages) :
                  modelData.overlayImages[n].imageData # NoImage}}

\* C22: a saveCustomModel call issues its metadata put only after every blob
\* put of that call has completed successfully, and issues no metadata put
\* when one of its blob puts failed.
C22_MetadataAfterBlobs ==
    \A c \in Calls :
        LET log == calls[c].log
        IN  /\ \A k \in 1..Len(log) :
                  log[k].store = "models" =>
                      /\ \A j \in 1..(k - 1) : log[j].store = "blobs" /\ log[j].ok
                      /\ PutsBefore(c, k) = KeysToWrite(calls[c].modelData)
            /\ (\E j \in 1..Len(log) : log[j].store = "blobs" /\ ~log[j].ok) =>
                  \A k \in 1..Len(log) : log[k].store # "models"

C22_Witness ==
    /\ calls[1].phase = "done"
    /\ calls[1].ok
    /\ Len(calls[1].log) = 3
    /\ calls[2].phase = "done"
    /\ Len(calls[2].log) = 2
    /\ ~calls[2].log[2].ok
    /\ calls[2].log[2].store = "blobs"

-----------------------------------------------------------------------------
(* Claims on the layer list open() rebuilds *)

\* the transform and name of a layer or of a stored overlay
Described(o) ==
    [name |-> o.name, position |-> o.position, size |-> o.size, rotation |-> o.rotation]

\* the last event was an open() of a custom model
OpenedCustom == lastEvent.type = "open" /\ lastEvent.custom

\* C23 as claimed: after the editor opened a stored custom model, its layer
\* list has the stored overlays in their saved order.
C23_OpenKeepsSavedOrder ==
    (OpenedCustom /\ lastEvent.opened # <<>>) =>
        /\ Len(overlayImages) = Len(lastEvent.opened)
        /\ \A i \in 1..Len(overlayImages) :
              Described(overlayImages[i]) = Described(lastEvent.opened[i])

-----------------------------------------------------------------------------
(* Claims on loading a model *)

\* the request made last
Latest ==
    IF \A r \in Requests : requests[r].phase = "idle" THEN 0
    ELSE CHOOSE r \in Requests :
           /\ requests[r].phase # "idle"
           /\ \A q \in Requests : requests[q].phase # "idle" => q <= r

\* all loadModel calls that were made have finished
LoadsFinished ==
    /\ Latest # 0
    /\ \A r \in Requests : requests[r].phase \in {"idle", "done"}

\* C24 as claimed: once the loadModel calls have finished and the most recent
\* one has put its object into the scene, no object of an earlier request is
\* in the scene, and the active model and mesh are those of the most recent
\* request.
C24_OnlyLatestLoadStays ==
    (LoadsFinished /\ requests[Latest].loaded) =>
        /\ scene = {Latest}
        /\ activeModel = Latest
        /\ activeMesh = Latest

-----------------------------------------------------------------------------
(* Claims on the stored metadata document *)

\* C25 as claimed: in every stored metadata document overlayKeys and
\* overlayMetadata have the same length, and overlayKeys[i] is the key under
\* which the blob of the overlay of overlayMetadata[i] was saved.
C25_KeysAlignedWithMetadata ==
    \A name \in DOMAIN models :
        LET doc == models[name]
        IN  /\ Len(doc.overlayKeys) = Len(doc.overlayMetadata)
            /\ \A i \in 1..Len(doc.overlayKeys) : doc.overlayKeys[i] = OverlayKey(name, i - 1)

-----------------------------------------------------------------------------
(* Claims on an import that overwrites *)

\* the step is a pass of the import loop over a name that was stored, with
\* overwrite chosen, whose saveCustomModel returned false
FailedOverwrite ==
    /\ importInfo.op = "running"
    /\ Len(importInfo'.log) = Len(importInfo.log) + 1
    /\ importInfo'.log[Len(importInfo'.log)].decision = "overwrite"
    /\ importInfo'.log[Len(importInfo'.log)].outcome = "failed"

\* the name the pass of the import loop is about
PassName == importInfo.entries[importInfo.next].name

\* C26 as claimed: when the import overwrites a stored name and the write of
\* the replacement fails, the record stored before is still stored and
\* loadCustomModel returns it as before.
C26_FailedOverwriteKeepsRecord ==
    [][FailedOverwrite =>
         /\ LoadCustomModel(models', blobs', PassName).found
         /\ LoadCustomModel(models', blobs', PassName) =
               LoadCustomModel(models, blobs, PassName)]_vars

-----------------------------------------------------------------------------
(* Claims on the record two overlapping saves leave *)

\* every loaded overlay has the image of an overlay of modelData and the
\* transform of an overlay of modelData
FromSave(loaded, modelData) ==
    LET imgs == modelData.overlayImages
    IN  \A i \in 1..Len(loaded) :
            /\ \E j \in 1..Len(imgs) :
                  /\ imgs[j].imageData # NoImage
                  /\ loaded[i].imageData = blobToDataURL(dataURLToBlob(imgs[j].imageData))
            /\ \E j \in 1..Len(imgs) : Described(loaded[i]) = Described(imgs[j])

\* C27 as claimed: once two overlapping saveCustomModel calls for one name
\* have both returned, the record loadCustomModel returns has all its images
\* and all its transforms from one of the two saves.
C27_LoadedFromOneSave ==
    (\A c \in Calls : calls[c].phase = "done") =>
        LET rec == LoadCustomModel(models, blobs, CallName)
        IN  rec.found => \E c \in Calls : FromSave(rec.overlayImages, calls[c].modelData)

-----------------------------------------------------------------------------
(* Claims on getLoadingPaths *)

\* C28 as claimed: every getLoadingPaths call returns, with paths or with
\* null, whatever custom records saveAsCustomModel has stored.
C28_GetLoadingPathsReturns ==
    (pathCall.phase = "running") ~> (pathCall.phase = "done")

-----------------------------------------------------------------------------
(* Claims on the editor after open, and on its selection *)

\* C29 as claimed: after open() for another model the layer list holds
\* exactly the overlays stored for that model: none for a model that is not
\* custom or is stored without overlays, and no layer of the model edited
\* before.
C29_OpenShowsStoredOverlays ==
    lastEvent.type = "open" =>
        /\ Len(overlayImages) = Len(lastEvent.opened)
        /\ {Described(overlayImages[i]) : i \in 1..Len(overlayImages)} =
              {Described(lastEvent.opened[i]) : i \in 1..Len(lastEvent.opened)}

\* the selected id is the id of a layer of the list
SelectedInList == \E i \in 1..Len(overlayImages) : overlayImages[i].id = selectedImageId

\* C30 as claimed: selectedImageId is null or the id of a layer of the list,
\* and isDragging is set only while such a layer is selected.
C30_SelectionInList ==
    /\ selectedImageId = 0 \/ SelectedInList
    /\ isDragging => (selectedImageId # 0 /\ SelectedInList)

====
